---- MODULE Spec2Model ----
(***************************************************************************)
(* Earnings distribution engine of the property backend.                   *)
(*                                                                         *)
(* The stored state is the relational schema of app/models: users,         *)
(* properties, investments, property_revenue and earnings_distribution.    *)
(* Every HTTP request runs in its own SQLAlchemy session.  No handler      *)
(* takes a row lock (there is no with_for_update) and no model declares a  *)
(* unique constraint on the revenue or distribution tables, so a handler   *)
(* that reads, decides and then commits is modelled as separate read and   *)
(* commit steps of a session; each read sees the rows committed so far.    *)
(*                                                                         *)
(* Optional columns are sequences of length at most one: << >> is None,    *)
(* <<v>> is the value v.  Float columns computed by a division are exact   *)
(* rationals <<numerator, denominator>>.                                   *)
(***************************************************************************)
EXTENDS Integers, Sequences, FiniteSets, TLC

\* ---------------------------------------------------------------- bounds
MaxProperties == 2
MaxInvestments == 2
MaxTime == 1

Sessions == {"s1", "s2"}
UserIds == {1, 2}

\* ------------------------------------------------------- optional values
None == << >>

Some(v) == <<v>>

\* Python truthiness of an Optional[int]: None and 0 are falsy
TruthyInt(o) == o # None /\ o[1] # 0

\* Python truthiness of an Optional[str]: None and "" are falsy
TruthyStr(o) == o # None /\ o[1] # ""

\* ---------------------------------------------------------- input values
GrossVals == {2, 4}
ExpenseVals == {0, 4}
MonthVals == {1, 2}
YearVals == {2024}

\* a field of a PATCH body: Unset (left out by exclude_unset) or Some(v)
Unset == << >>

Patch(vals) == {Unset} \cup {Some(v) : v \in vals}

\* ------------------------------------------------------------ enumerations
UserRole == {"PUBLIC", "USER", "INVESTOR", "ADMIN"}
DistributionStatus == {"PENDING", "PAID", "CANCELLED"}

VARIABLES
  users,        \* users table: id -> role
  properties,   \* properties table: set of rows
  investments,  \* investments table: set of rows
  revenues,     \* property_revenue table: set of rows
  dists,        \* earnings_distribution table: set of rows
  nextId,       \* the autoincrement sequences of the four tables
  pc,           \* per session: the handler step it is at
  loc,          \* per session: the ORM objects the handler has loaded
  response,     \* the last HTTP response sent
  now,          \* datetime.utcnow()
  distOk,       \* history: successful distribute runs per revenue id
  summary       \* the last earnings summary returned, with its user

db == <<users, properties, investments, revenues, dists>>

vars == <<users, properties, investments, revenues, dists, nextId, pc, loc,
          response, now, distOk, summary>>

\* the history h with one more successful run on revenue record rid
Counted(h, rid) ==
  IF rid \in DOMAIN h THEN [h EXCEPT ![rid] = @ + 1] ELSE h @@ (rid :> 1)

\* ------------------------------------------------------------------ rows
Row(table, id) == CHOOSE r \in table : r.id = id

Has(table, id) == \E r \in table : r.id = id

\* is_fractional that only asks for total_fractions to be present
is_fractional_present(p) == p.total_fractions # None

\* Property.is_fractional
is_fractional(p) == p.total_fractions # None /\ p.total_fractions[1] > 0

\* PropertyRevenue.net_income
net_income(r) == r.gross_revenue - r.expenses

NoLoc == [op |-> "none"]

\* an HTTP response: the handler, the status code and the detail string
Resp(op, code, detail) == [op |-> op, code |-> code, detail |-> detail]

\* require_admin that lets investors through, as require_investor does
IsAdmin_or_investor(u) == users[u] \in {"INVESTOR", "ADMIN"}

\* require_admin
IsAdmin(u) == users[u] = "ADMIN"

Reply(op, arg, code, detail) == response' = Resp(op, code, detail)

\* the request is refused by the require_admin dependency
Forbidden(s, u, op, arg) ==
  /\ pc[s] = "idle"
  /\ ~IsAdmin(u)
  /\ Reply(op, arg, 403, "Access denied. Admin privileges required.")
  /\ UNCHANGED <<db, nextId, pc, loc, now, distOk, summary>>

Init ==
  /\ users = [u \in UserIds |-> IF u = 1 THEN "ADMIN" ELSE "INVESTOR"]
  /\ properties = {}
  /\ investments = {}
  /\ revenues = {}
  /\ dists = {}
  /\ nextId = [property |-> 1, investment |-> 1, revenue |-> 1, dist |-> 1]
  /\ pc = [s \in Sessions |-> "idle"]
  /\ loc = [s \in Sessions |-> NoLoc]
  /\ response = Resp("none", 0, "")
  /\ now = 0
  /\ distOk = << >>
  /\ summary = None

\* ------------------------------------------------------------- admin.py
update_user_role(s, u, uid, role) ==
  /\ pc[s] = "idle"
  /\ IsAdmin(u)
  /\ IF uid \notin DOMAIN users
       THEN /\ Reply("update_user_role", uid, 404, "User not found")
            /\ UNCHANGED users
       ELSE /\ users' = [users EXCEPT ![uid] = role]
            /\ Reply("update_user_role", uid, 200, "")
  /\ UNCHANGED <<properties, investments, revenues, dists, nextId, pc, loc,
                 now, distOk, summary>>

create_property(s, u, tf) ==
  /\ pc[s] = "idle"
  /\ IsAdmin(u)
  /\ nextId.property <= MaxProperties
  /\ properties' = properties \cup
       {[id |-> nextId.property, total_fractions |-> tf, fractions_sold |-> 0]}
  /\ nextId' = [nextId EXCEPT !.property = @ + 1]
  /\ Reply("create_property", nextId.property, 201, "")
  /\ UNCHANGED <<users, investments, revenues, dists, pc, loc, now,
                 distOk, summary>>

update_property(s, u, pid, tf) ==
  /\ pc[s] = "idle"
  /\ IsAdmin(u)
  /\ IF ~Has(properties, pid)
       THEN /\ Reply("update_property", pid, 404, "Property not found")
            /\ UNCHANGED properties
       ELSE /\ properties' = {IF p.id = pid /\ tf # Unset
                                THEN [p EXCEPT !.total_fractions = tf[1]]
                                ELSE p : p \in properties}
            /\ Reply("update_property", pid, 200, "")
  /\ UNCHANGED <<users, investments, revenues, dists, nextId, pc, loc, now,
                 distOk, summary>>

\* delete_property that leaves the earnings_distribution rows behind
delete_property_keeps_rows(s, u, pid) ==
  /\ pc[s] = "idle"
  /\ IsAdmin(u)
  /\ IF ~Has(properties, pid)
       THEN /\ Reply("delete_property", pid, 404, "Property not found")
            /\ UNCHANGED <<properties, investments, revenues, dists>>
       ELSE /\ properties' = {p \in properties : p.id # pid}
            /\ investments' = {i \in investments : i.property_id # pid}
            /\ revenues' = {r \in revenues : r.property_id # pid}
            /\ UNCHANGED dists
            /\ Reply("delete_property", pid, 204, "")
  /\ UNCHANGED <<users, nextId, pc, loc, now, distOk, summary>>

\* db.delete(property): the investments and revenue records of the property
\* go with it (cascade="all, delete-orphan"), and with them their
\* earnings_distribution rows (ondelete="CASCADE")
delete_property(s, u, pid) ==
  /\ pc[s] = "idle"
  /\ IsAdmin(u)
  /\ IF ~Has(properties, pid)
       THEN /\ Reply("delete_property", pid, 404, "Property not found")
            /\ UNCHANGED <<properties, investments, revenues, dists>>
       ELSE LET invs == {i \in investments : i.property_id = pid}
                revs == {r \in revenues : r.property_id = pid}
            IN /\ properties' = {p \in properties : p.id # pid}
               /\ investments' = investments \ invs
               /\ revenues' = revenues \ revs
               /\ dists' = {d \in dists :
                    /\ ~\E i \in invs : i.id = d.investment_id
                    /\ ~\E r \in revs : r.id = d.property_revenue_id}
               /\ Reply("delete_property", pid, 204, "")
  /\ UNCHANGED <<users, nextId, pc, loc, now, distOk, summary>>

assign_investment(s, u, uid, pid, fo, iv, cv) ==
  /\ pc[s] = "idle"
  /\ IsAdmin(u)
  /\ IF uid \notin DOMAIN users
       THEN /\ Reply("assign_investment", pid, 404, "User not found")
            /\ UNCHANGED <<investments, nextId>>
       ELSE IF users[uid] \notin {"INVESTOR", "ADMIN"}
       THEN /\ Reply("assign_investment", pid, 400,
                     "User must be an INVESTOR to receive investments")
            /\ UNCHANGED <<investments, nextId>>
       ELSE IF ~Has(properties, pid)
       THEN /\ Reply("assign_investment", pid, 404, "Property not found")
            /\ UNCHANGED <<investments, nextId>>
       ELSE /\ nextId.investment <= MaxInvestments
            /\ investments' = investments \cup
                 {[id |-> nextId.investment, user_id |-> uid,
                   property_id |-> pid, fractions_owned |-> fo,
                   initial_value |-> iv, current_value |-> cv]}
            /\ nextId' = [nextId EXCEPT !.investment = @ + 1]
            /\ Reply("assign_investment", nextId.investment, 201, "")
  /\ UNCHANGED <<users, properties, revenues, dists, pc, loc, now,
                 distOk, summary>>

update_investment_valuation(s, u, iid, cv) ==
  /\ pc[s] = "idle"
  /\ IsAdmin(u)
  /\ IF ~Has(investments, iid)
       THEN /\ Reply("update_investment_valuation", iid, 404,
                     "Investment not found")
            /\ UNCHANGED investments
       ELSE /\ investments' = {IF i.id = iid
                                 THEN [i EXCEPT !.current_value = cv]
                                 ELSE i : i \in investments}
            /\ Reply("update_investment_valuation", iid, 200, "")
  /\ UNCHANGED <<users, properties, revenues, dists, nextId, pc, loc, now,
                 distOk, summary>>

\* ----------------------------------------------------------- shortlet.py
\* create_revenue_record, lines 150-169: the property and duplicate-period
\* queries
create_revenue_record(s, u, pid, m, y, g, e) ==
  /\ pc[s] = "idle"
  /\ IsAdmin(u)
  /\ IF ~Has(properties, pid)
       THEN /\ Reply("create_revenue_record", pid, 404, "Property not found")
            /\ UNCHANGED <<pc, loc>>
       ELSE IF \E r \in revenues :
                 r.property_id = pid /\ r.month = m /\ r.year = y
       THEN /\ Reply("create_revenue_record", pid, 400,
                     "Revenue record already exists")
            /\ UNCHANGED <<pc, loc>>
       ELSE /\ pc' = [pc EXCEPT ![s] = "create_revenue_commit"]
            /\ loc' = [loc EXCEPT ![s] =
                 [op |-> "create_revenue_record", property_id |-> pid,
                  month |-> m, year |-> y, gross_revenue |-> g,
                  expenses |-> e]]
            /\ UNCHANGED response
  /\ UNCHANGED <<db, nextId, now, distOk, summary>>

\* create_revenue_record, lines 171-181: the INSERT and the commit; the
\* foreign key to properties fails the INSERT when the property is gone
create_revenue_commit(s) ==
  /\ pc[s] = "create_revenue_commit"
  /\ IF ~Has(properties, loc[s].property_id)
       THEN /\ Reply("create_revenue_record", loc[s].property_id, 500,
                     "IntegrityError")
            /\ UNCHANGED <<revenues, nextId>>
       ELSE /\ revenues' = revenues \cup
                 {[id |-> nextId.revenue,
                   property_id |-> loc[s].property_id,
                   month |-> loc[s].month, year |-> loc[s].year,
                   gross_revenue |-> loc[s].gross_revenue,
                   expenses |-> loc[s].expenses,
                   distributed |-> FALSE, distribution_date |-> None]}
            /\ nextId' = [nextId EXCEPT !.revenue = @ + 1]
            /\ Reply("create_revenue_record", nextId.revenue, 201, "")
  /\ pc' = [pc EXCEPT ![s] = "idle"]
  /\ loc' = [loc EXCEPT ![s] = NoLoc]
  /\ UNCHANGED <<users, properties, investments, dists, now, distOk, summary>>

\* update_revenue_record, lines 230-246: the query, the distributed check
\* and the setattr loop on the loaded object
update_revenue_record(s, u, rid, g, e) ==
  /\ pc[s] = "idle"
  /\ IsAdmin(u)
  /\ IF ~Has(revenues, rid)
       THEN /\ Reply("update_revenue_record", rid, 404,
                     "Revenue record not found")
            /\ UNCHANGED <<pc, loc>>
       ELSE IF Row(revenues, rid).distributed
       THEN /\ Reply("update_revenue_record", rid, 400,
               "Cannot update revenue that has already been distributed")
            /\ UNCHANGED <<pc, loc>>
       ELSE /\ pc' = [pc EXCEPT ![s] = "update_revenue_commit"]
            /\ loc' = [loc EXCEPT ![s] =
                 [op |-> "update_revenue_record",
                  revenue |-> Row(revenues, rid),
                  gross_revenue |-> g, expenses |-> e]]
            /\ UNCHANGED response
  /\ UNCHANGED <<db, nextId, now, distOk, summary>>

\* the value the unit of work writes for one column: a column is part of
\* the UPDATE only when setattr changed it on the loaded object
Written(current, loaded, new) ==
  IF new = Unset \/ new[1] = loaded THEN current ELSE new[1]

\* update_revenue_commit that writes the whole loaded row back
update_revenue_commit_whole_row(s) ==
  /\ pc[s] = "update_revenue_commit"
  /\ LET old == loc[s].revenue
     IN IF ~Has(revenues, old.id)
          THEN /\ Reply("update_revenue_record", old.id, 500,
                        "StaleDataError")
               /\ UNCHANGED revenues
          ELSE /\ revenues' =
                    {IF r.id = old.id
                       THEN [old EXCEPT
                              !.gross_revenue =
                                 Written(@, old.gross_revenue,
                                         loc[s].gross_revenue),
                              !.expenses =
                                 Written(@, old.expenses, loc[s].expenses)]
                       ELSE r : r \in revenues}
               /\ Reply("update_revenue_record", old.id, 200, "")
  /\ pc' = [pc EXCEPT ![s] = "idle"]
  /\ loc' = [loc EXCEPT ![s] = NoLoc]
  /\ UNCHANGED <<users, properties, investments, dists, nextId, now,
                 distOk, summary>>

\* update_revenue_record, lines 248-251: the flush issues
\* UPDATE property_revenue SET <changed columns> WHERE id = :id
update_revenue_commit(s) ==
  /\ pc[s] = "update_revenue_commit"
  /\ LET old == loc[s].revenue
     IN IF ~Has(revenues, old.id)
          THEN /\ Reply("update_revenue_record", old.id, 500,
                        "StaleDataError")
               /\ UNCHANGED revenues
          ELSE /\ revenues' =
                    {IF r.id = old.id
                       THEN [r EXCEPT
                              !.gross_revenue =
                                 Written(@, old.gross_revenue,
                                         loc[s].gross_revenue),
                              !.expenses =
                                 Written(@, old.expenses, loc[s].expenses)]
                       ELSE r : r \in revenues}
               /\ Reply("update_revenue_record", old.id, 200, "")
  /\ pc' = [pc EXCEPT ![s] = "idle"]
  /\ loc' = [loc EXCEPT ![s] = NoLoc]
  /\ UNCHANGED <<users, properties, investments, dists, nextId, now,
                 distOk, summary>>

\* a ValueError of the service, turned into HTTP 400 by distribute_revenue
DistributeFails(s, rid, detail) ==
  /\ Reply("distribute_revenue", rid, 400, detail)
  /\ pc' = [pc EXCEPT ![s] = "idle"]
  /\ loc' = [loc EXCEPT ![s] = NoLoc]

\* distribute_revenue without the check of line 36
distribute_revenue_unguarded(s, u, rid) ==
  /\ pc[s] = "idle"
  /\ IsAdmin(u)
  /\ IF ~Has(revenues, rid)
       THEN DistributeFails(s, rid, "Revenue record not found")
       ELSE /\ pc' = [pc EXCEPT ![s] = "distribute_property"]
            /\ loc' = [loc EXCEPT ![s] =
                 [op |-> "distribute", revenue |-> Row(revenues, rid)]]
            /\ UNCHANGED response
  /\ UNCHANGED <<db, nextId, now, distOk, summary>>

\* ------------------------------------------------ distribution_service.py
\* calculate_and_create_distributions, lines 32-37
distribute_revenue(s, u, rid) ==
  /\ pc[s] = "idle"
  /\ IsAdmin(u)
  /\ IF ~Has(revenues, rid)
       THEN DistributeFails(s, rid, "Revenue record not found")
       ELSE IF Row(revenues, rid).distributed
       THEN DistributeFails(s, rid, "Revenue already distributed")
       ELSE /\ pc' = [pc EXCEPT ![s] = "distribute_property"]
            /\ loc' = [loc EXCEPT ![s] =
                 [op |-> "distribute", revenue |-> Row(revenues, rid)]]
            /\ UNCHANGED response
  /\ UNCHANGED <<db, nextId, now, distOk, summary>>

\* calculate_and_create_distributions, lines 39-46
distribute_property(s) ==
  /\ pc[s] = "distribute_property"
  /\ LET revenue == loc[s].revenue
     IN IF ~Has(properties, revenue.property_id)
          THEN DistributeFails(s, revenue.id, "Property not found")
          ELSE IF ~is_fractional(Row(properties, revenue.property_id))
          THEN DistributeFails(s, revenue.id,
                 "Property does not use fractional ownership")
          ELSE /\ pc' = [pc EXCEPT ![s] = "distribute_investments"]
               /\ loc' = [loc EXCEPT ![s] =
                    [op |-> "distribute", revenue |-> revenue,
                     property |-> Row(properties, revenue.property_id)]]
               /\ UNCHANGED response
  /\ UNCHANGED <<db, nextId, now, distOk, summary>>

\* distribute_investments with the period marked as distributed before the
\* net income is checked
distribute_investments_marks_first(s) ==
  /\ pc[s] = "distribute_investments"
  /\ LET revenue == loc[s].revenue
         invs == {i \in investments : i.property_id = revenue.property_id}
     IN IF invs = {}
          THEN /\ DistributeFails(s, revenue.id,
                    "No investments found for this property")
               /\ UNCHANGED revenues
          ELSE IF net_income(revenue) <= 0
          THEN /\ DistributeFails(s, revenue.id,
                    "Net income must be positive to distribute")
               /\ revenues' = {IF r.id = revenue.id
                                 THEN [r EXCEPT !.distributed = TRUE]
                                 ELSE r : r \in revenues}
          ELSE /\ pc' = [pc EXCEPT ![s] = "distribute_commit"]
               /\ loc' = [loc EXCEPT ![s] =
                    [op |-> "distribute", revenue |-> revenue,
                     property |-> loc[s].property, investments |-> invs]]
               /\ UNCHANGED <<response, revenues>>
  /\ UNCHANGED <<users, properties, investments, dists, nextId, now,
                 distOk, summary>>

\* distribute_investments that lets a net income of zero through
distribute_investments_negative_only(s) ==
  /\ pc[s] = "distribute_investments"
  /\ LET revenue == loc[s].revenue
         invs == {i \in investments : i.property_id = revenue.property_id}
     IN IF invs = {}
          THEN DistributeFails(s, revenue.id,
                 "No investments found for this property")
          ELSE IF net_income(revenue) < 0
          THEN DistributeFails(s, revenue.id,
                 "Net income must be positive to distribute")
          ELSE /\ pc' = [pc EXCEPT ![s] = "distribute_commit"]
               /\ loc' = [loc EXCEPT ![s] =
                    [op |-> "distribute", revenue |-> revenue,
                     property |-> loc[s].property, investments |-> invs]]
               /\ UNCHANGED response
  /\ UNCHANGED <<db, nextId, now, distOk, summary>>

\* distribute_investments that looks at the net income before it looks for
\* investments
distribute_investments_income_first(s) ==
  /\ pc[s] = "distribute_investments"
  /\ LET revenue == loc[s].revenue
         invs == {i \in investments : i.property_id = revenue.property_id}
     IN IF net_income(revenue) <= 0
          THEN DistributeFails(s, revenue.id,
                 "Net income must be positive to distribute")
          ELSE IF invs = {}
          THEN DistributeFails(s, revenue.id,
                 "No investments found for this property")
          ELSE /\ pc' = [pc EXCEPT ![s] = "distribute_commit"]
               /\ loc' = [loc EXCEPT ![s] =
                    [op |-> "distribute", revenue |-> revenue,
                     property |-> loc[s].property, investments |-> invs]]
               /\ UNCHANGED response
  /\ UNCHANGED <<db, nextId, now, distOk, summary>>

\* distribute_investments without the check of line 53
distribute_investments_any_recipients(s) ==
  /\ pc[s] = "distribute_investments"
  /\ LET revenue == loc[s].revenue
         invs == {i \in investments : i.property_id = revenue.property_id}
     IN IF net_income(revenue) <= 0
          THEN DistributeFails(s, revenue.id,
                 "Net income must be positive to distribute")
          ELSE /\ pc' = [pc EXCEPT ![s] = "distribute_commit"]
               /\ loc' = [loc EXCEPT ![s] =
                    [op |-> "distribute", revenue |-> revenue,
                     property |-> loc[s].property, investments |-> invs]]
               /\ UNCHANGED response
  /\ UNCHANGED <<db, nextId, now, distOk, summary>>

\* calculate_and_create_distributions, lines 48-60
distribute_investments(s) ==
  /\ pc[s] = "distribute_investments"
  /\ LET revenue == loc[s].revenue
         invs == {i \in investments : i.property_id = revenue.property_id}
     IN IF invs = {}
          THEN DistributeFails(s, revenue.id,
                 "No investments found for this property")
          ELSE IF net_income(revenue) <= 0
          THEN DistributeFails(s, revenue.id,
                 "Net income must be positive to distribute")
          ELSE /\ pc' = [pc EXCEPT ![s] = "distribute_commit"]
               /\ loc' = [loc EXCEPT ![s] =
                    [op |-> "distribute", revenue |-> revenue,
                     property |-> loc[s].property, investments |-> invs]]
               /\ UNCHANGED response
  /\ UNCHANGED <<db, nextId, now, distOk, summary>>

\* Qualifying that skips only the investments without fractions_owned
Qualifying_present(invs) == {i \in invs : i.fractions_owned # None}

\* the investments that get a row: line 66 skips falsy fractions_owned
Qualifying(invs) == {i \in invs : TruthyInt(i.fractions_owned)}

\* NewDistribution that creates the row as PAID
NewDistribution_paid(id, revenue, property, investment) ==
  [id |-> id,
   property_revenue_id |-> revenue.id,
   investment_id |-> investment.id,
   fractions_owned |-> investment.fractions_owned[1],
   ownership_percentage |->
     <<investment.fractions_owned[1] * 100, property.total_fractions[1]>>,
   earnings_amount |->
     <<investment.fractions_owned[1] * net_income(revenue),
       property.total_fractions[1]>>,
   status |-> "PAID",
   paid_date |-> None,
   payment_reference |-> None,
   notes |-> None]

\* NewDistribution that shares out the gross revenue
NewDistribution_of_gross(id, revenue, property, investment) ==
  [id |-> id,
   property_revenue_id |-> revenue.id,
   investment_id |-> investment.id,
   fractions_owned |-> investment.fractions_owned[1],
   ownership_percentage |->
     <<investment.fractions_owned[1] * 100, property.total_fractions[1]>>,
   earnings_amount |->
     <<investment.fractions_owned[1] * revenue.gross_revenue,
       property.total_fractions[1]>>,
   status |-> "PENDING",
   paid_date |-> None,
   payment_reference |-> None,
   notes |-> None]

\* calculate_and_create_distributions, lines 69-83: the row of one
\* investment; the two floats are kept as exact rationals
NewDistribution(id, revenue, property, investment) ==
  [id |-> id,
   property_revenue_id |-> revenue.id,
   investment_id |-> investment.id,
   fractions_owned |-> investment.fractions_owned[1],
   ownership_percentage |->
     <<investment.fractions_owned[1] * 100, property.total_fractions[1]>>,
   earnings_amount |->
     <<investment.fractions_owned[1] * net_income(revenue),
       property.total_fractions[1]>>,
   status |-> "PENDING",
   paid_date |-> None,
   payment_reference |-> None,
   notes |-> None]

\* sum of fractions_owned over a set of investments with fractions
RECURSIVE HeldFractions(_)
HeldFractions(invs) ==
  IF invs = {} THEN 0
  ELSE LET i == CHOOSE x \in invs : TRUE
       IN i.fractions_owned[1] + HeldFractions(invs \ {i})

\* NewDistributions that shares the whole net income among the holders
NewDistributions_whole_income(first, revenue, property, invs) ==
  {[NewDistribution(
      first + Cardinality({j \in Qualifying(invs) : j.id < i.id}),
      revenue, property, i)
    EXCEPT !.earnings_amount =
      <<i.fractions_owned[1] * net_income(revenue),
        HeldFractions(Qualifying(invs))>>] : i \in Qualifying(invs)}

\* the rows of one run, numbered from the sequence in investment order
NewDistributions(first, revenue, property, invs) ==
  {NewDistribution(
     first + Cardinality({j \in Qualifying(invs) : j.id < i.id}),
     revenue, property, i) : i \in Qualifying(invs)}

\* distribute_commit that refuses a run without rows
distribute_commit_needs_rows(s) ==
  /\ pc[s] = "distribute_commit"
  /\ LET revenue == loc[s].revenue
         rows == NewDistributions(nextId.dist, revenue, loc[s].property,
                                  loc[s].investments)
     IN IF rows = {}
          THEN /\ Reply("distribute_revenue", revenue.id, 400,
                        "No investments found for this property")
               /\ UNCHANGED <<revenues, dists, nextId, distOk>>
          ELSE IF \/ ~Has(revenues, revenue.id)
                  \/ \E i \in Qualifying(loc[s].investments) :
                       ~Has(investments, i.id)
          THEN /\ Reply("distribute_revenue", revenue.id, 500,
                        "IntegrityError")
               /\ UNCHANGED <<revenues, dists, nextId, distOk>>
          ELSE /\ dists' = dists \cup rows
               /\ revenues' =
                    {IF r.id = revenue.id
                       THEN [r EXCEPT !.distributed = TRUE,
                                      !.distribution_date = Some(now)]
                       ELSE r : r \in revenues}
               /\ nextId' = [nextId EXCEPT !.dist = @ + Cardinality(rows)]
               /\ distOk' = Counted(distOk, revenue.id)
               /\ Reply("distribute_revenue", revenue.id, 200,
                        "Created distribution records")
  /\ pc' = [pc EXCEPT ![s] = "idle"]
  /\ loc' = [loc EXCEPT ![s] = NoLoc]
  /\ UNCHANGED <<users, properties, investments, now, summary>>

\* distribute_commit that also books the distributed fractions as sold
distribute_commit_books_fractions(s) ==
  /\ pc[s] = "distribute_commit"
  /\ LET revenue == loc[s].revenue
         rows == NewDistributions(nextId.dist, revenue, loc[s].property,
                                  loc[s].investments)
     IN IF \/ ~Has(revenues, revenue.id)
           \/ \E i \in Qualifying(loc[s].investments) :
                ~Has(investments, i.id)
          THEN /\ Reply("distribute_revenue", revenue.id, 500,
                        "IntegrityError")
               /\ UNCHANGED <<properties, revenues, dists, nextId, distOk>>
          ELSE /\ dists' = dists \cup rows
               /\ revenues' =
                    {IF r.id = revenue.id
                       THEN [r EXCEPT !.distributed = TRUE,
                                      !.distribution_date = Some(now)]
                       ELSE r : r \in revenues}
               /\ properties' =
                    {IF p.id = revenue.property_id
                       THEN [p EXCEPT !.fractions_sold =
                               @ + HeldFractions(
                                     Qualifying(loc[s].investments))]
                       ELSE p : p \in properties}
               /\ nextId' = [nextId EXCEPT !.dist = @ + Cardinality(rows)]
               /\ distOk' = Counted(distOk, revenue.id)
               /\ Reply("distribute_revenue", revenue.id, 200,
                        "Created distribution records")
  /\ pc' = [pc EXCEPT ![s] = "idle"]
  /\ loc' = [loc EXCEPT ![s] = NoLoc]
  /\ UNCHANGED <<users, investments, now, summary>>

\* distribute_commit that commits the rows without the distributed flag
distribute_commit_rows_only(s) ==
  /\ pc[s] = "distribute_commit"
  /\ LET revenue == loc[s].revenue
         rows == NewDistributions(nextId.dist, revenue, loc[s].property,
                                  loc[s].investments)
     IN IF \/ ~Has(revenues, revenue.id)
           \/ \E i \in Qualifying(loc[s].investments) :
                ~Has(investments, i.id)
          THEN /\ Reply("distribute_revenue", revenue.id, 500,
                        "IntegrityError")
               /\ UNCHANGED <<dists, nextId, distOk>>
          ELSE /\ dists' = dists \cup rows
               /\ nextId' = [nextId EXCEPT !.dist = @ + Cardinality(rows)]
               /\ distOk' = Counted(distOk, revenue.id)
               /\ Reply("distribute_revenue", revenue.id, 200,
                        "Created distribution records")
  /\ pc' = [pc EXCEPT ![s] = "idle"]
  /\ loc' = [loc EXCEPT ![s] = NoLoc]
  /\ UNCHANGED <<users, properties, investments, revenues, now,
                 summary>>

\* calculate_and_create_distributions, lines 85-92: the flush INSERTs the
\* rows and issues UPDATE property_revenue SET distributed, distribution_date
\* WHERE id = :id, in one transaction.  A row that references a deleted
\* investment or revenue record fails the flush, and so does an UPDATE that
\* matches no row.
distribute_commit(s) ==
  /\ pc[s] = "distribute_commit"
  /\ LET revenue == loc[s].revenue
         rows == NewDistributions(nextId.dist, revenue, loc[s].property,
                                  loc[s].investments)
     IN IF \/ ~Has(revenues, revenue.id)
           \/ \E i \in Qualifying(loc[s].investments) :
                ~Has(investments, i.id)
          THEN /\ Reply("distribute_revenue", revenue.id, 500, "IntegrityError")
               /\ UNCHANGED <<revenues, dists, nextId, distOk>>
          ELSE /\ dists' = dists \cup rows
               /\ revenues' =
                    {IF r.id = revenue.id
                       THEN [r EXCEPT !.distributed = TRUE,
                                      !.distribution_date = Some(now)]
                       ELSE r : r \in revenues}
               /\ nextId' = [nextId EXCEPT !.dist = @ + Cardinality(rows)]
               /\ distOk' = Counted(distOk, revenue.id)
               /\ Reply("distribute_revenue", revenue.id, 200,
                        "Created distribution records")
  /\ pc' = [pc EXCEPT ![s] = "idle"]
  /\ loc' = [loc EXCEPT ![s] = NoLoc]
  /\ UNCHANGED <<users, properties, investments, now,
                 summary>>

\* update_distribution_status that zeroes the amount of a cancelled
\* distribution
update_distribution_status_zeroes(s, u, did, st, ref, notes) ==
  /\ pc[s] = "idle"
  /\ IsAdmin(u)
  /\ IF ~Has(dists, did)
       THEN /\ Reply("update_distribution_status", did, 404,
                     "Distribution not found")
            /\ UNCHANGED dists
       ELSE /\ dists' =
                 {IF d.id = did
                    THEN [d EXCEPT
                           !.status = st,
                           !.earnings_amount =
                              IF st = "CANCELLED" THEN <<0, 1>> ELSE @,
                           !.paid_date =
                              IF st = "PAID" THEN Some(now) ELSE @,
                           !.payment_reference =
                              IF TruthyStr(ref) THEN ref ELSE @,
                           !.notes = IF TruthyStr(notes) THEN notes ELSE @]
                    ELSE d : d \in dists}
            /\ Reply("update_distribution_status", did, 200, "")
  /\ UNCHANGED <<users, properties, investments, revenues, nextId, pc, loc,
                 now, distOk, summary>>

\* update_distribution_status that leaves paid_date alone
update_distribution_status_undated(s, u, did, st, ref, notes) ==
  /\ pc[s] = "idle"
  /\ IsAdmin(u)
  /\ IF ~Has(dists, did)
       THEN /\ Reply("update_distribution_status", did, 404,
                     "Distribution not found")
            /\ UNCHANGED dists
       ELSE /\ dists' =
                 {IF d.id = did
                    THEN [d EXCEPT
                           !.status = st,
                           !.payment_reference =
                              IF TruthyStr(ref) THEN ref ELSE @,
                           !.notes = IF TruthyStr(notes) THEN notes ELSE @]
                    ELSE d : d \in dists}
            /\ Reply("update_distribution_status", did, 200, "")
  /\ UNCHANGED <<users, properties, investments, revenues, nextId, pc, loc,
                 now, distOk, summary>>

\* update_distribution_status that only settles PENDING distributions
update_distribution_status_from_pending(s, u, did, st, ref, notes) ==
  /\ pc[s] = "idle"
  /\ IsAdmin(u)
  /\ IF ~Has(dists, did)
       THEN /\ Reply("update_distribution_status", did, 404,
                     "Distribution not found")
            /\ UNCHANGED dists
       ELSE IF Row(dists, did).status # "PENDING"
       THEN /\ Reply("update_distribution_status", did, 400,
                     "Distribution already settled")
            /\ UNCHANGED dists
       ELSE /\ dists' =
                 {IF d.id = did
                    THEN [d EXCEPT
                           !.status = st,
                           !.paid_date =
                              IF st = "PAID" THEN Some(now) ELSE @,
                           !.payment_reference =
                              IF TruthyStr(ref) THEN ref ELSE @,
                           !.notes = IF TruthyStr(notes) THEN notes ELSE @]
                    ELSE d : d \in dists}
            /\ Reply("update_distribution_status", did, 200, "")
  /\ UNCHANGED <<users, properties, investments, revenues, nextId, pc, loc,
                 now, distOk, summary>>

\* update_distribution_status that gives the new status to every
\* distribution of the same revenue period
update_distribution_status_whole_period(s, u, did, st, ref, notes) ==
  /\ pc[s] = "idle"
  /\ IsAdmin(u)
  /\ IF ~Has(dists, did)
       THEN /\ Reply("update_distribution_status", did, 404,
                     "Distribution not found")
            /\ UNCHANGED dists
       ELSE /\ dists' =
                 {IF d.id = did
                    THEN [d EXCEPT
                           !.status = st,
                           !.paid_date =
                              IF st = "PAID" THEN Some(now) ELSE @,
                           !.payment_reference =
                              IF TruthyStr(ref) THEN ref ELSE @,
                           !.notes = IF TruthyStr(notes) THEN notes ELSE @]
                    ELSE IF d.property_revenue_id
                              = Row(dists, did).property_revenue_id
                    THEN [d EXCEPT !.status = st]
                    ELSE d : d \in dists}
            /\ Reply("update_distribution_status", did, 200, "")
  /\ UNCHANGED <<users, properties, investments, revenues, nextId, pc, loc,
                 now, distOk, summary>>

\* update_distribution_status, shortlet.py lines 339-362
update_distribution_status(s, u, did, st, ref, notes) ==
  /\ pc[s] = "idle"
  /\ IsAdmin(u)
  /\ IF ~Has(dists, did)
       THEN /\ Reply("update_distribution_status", did, 404,
                     "Distribution not found")
            /\ UNCHANGED dists
       ELSE /\ dists' =
                 {IF d.id = did
                    THEN [d EXCEPT
                           !.status = st,
                           !.paid_date =
                              IF st = "PAID" THEN Some(now) ELSE @,
                           !.payment_reference =
                              IF TruthyStr(ref) THEN ref ELSE @,
                           !.notes = IF TruthyStr(notes) THEN notes ELSE @]
                    ELSE d : d \in dists}
            /\ Reply("update_distribution_status", did, 200, "")
  /\ UNCHANGED <<users, properties, investments, revenues, nextId, pc, loc,
                 now, distOk, summary>>

\* ------------------------------------------- earnings summary (service)
\* the sum a + b of two floats kept as rationals
RatAdd(a, b) == <<a[1] * b[2] + b[1] * a[2], a[2] * b[2]>>

\* sum(d.earnings_amount for d in rows); sum() of nothing is 0
RECURSIVE SumAmounts(_)
SumAmounts(rows) ==
  IF rows = {} THEN <<0, 1>>
  ELSE LET d == CHOOSE x \in rows : TRUE
       IN RatAdd(d.earnings_amount, SumAmounts(rows \ {d}))

\* get_investor_earnings_summary whose total_pending takes every row that
\* is not PAID
get_investor_earnings_summary_unpaid(user_id, invs, rows) ==
  LET distributions ==
        {d \in rows : \E i \in invs :
                        i.id = d.investment_id /\ i.user_id = user_id}
      property_ids ==
        {Row(invs, d.investment_id).property_id : d \in distributions}
  IN [total_earnings |-> SumAmounts(distributions),
      total_paid |-> SumAmounts({d \in distributions : d.status = "PAID"}),
      total_pending |->
        SumAmounts({d \in distributions : d.status # "PAID"}),
      distributions_count |-> Cardinality(distributions),
      properties_count |-> Cardinality(property_ids)]

\* get_investor_earnings_summary without the filter on Investment.user_id
get_investor_earnings_summary_everyone(user_id, invs, rows) ==
  LET distributions ==
        {d \in rows : \E i \in invs : i.id = d.investment_id}
      property_ids ==
        {Row(invs, d.investment_id).property_id : d \in distributions}
  IN [total_earnings |-> SumAmounts(distributions),
      total_paid |-> SumAmounts({d \in distributions : d.status = "PAID"}),
      total_pending |->
        SumAmounts({d \in distributions : d.status = "PENDING"}),
      distributions_count |-> Cardinality(distributions),
      properties_count |-> Cardinality(property_ids)]

\* get_investor_earnings_summary, distribution_service.py lines 111-132, on
\* the investments and earnings_distribution tables invs and rows
get_investor_earnings_summary(user_id, invs, rows) ==
  LET distributions ==
        {d \in rows : \E i \in invs :
                        i.id = d.investment_id /\ i.user_id = user_id}
      property_ids ==
        {Row(invs, d.investment_id).property_id : d \in distributions}
  IN [total_earnings |-> SumAmounts(distributions),
      total_paid |-> SumAmounts({d \in distributions : d.status = "PAID"}),
      total_pending |->
        SumAmounts({d \in distributions : d.status = "PENDING"}),
      distributions_count |-> Cardinality(distributions),
      properties_count |-> Cardinality(property_ids)]

\* get_earnings_summary, investor_shortlet.py lines 101-110, behind
\* require_investor
get_earnings_summary(s, u) ==
  /\ pc[s] = "idle"
  /\ IF users[u] \notin {"INVESTOR", "ADMIN"}
       THEN /\ Reply("get_earnings_summary", u, 403,
                     "Access denied. Investor privileges required.")
            /\ UNCHANGED summary
       ELSE /\ summary' =
                 Some([user_id |-> u,
                       result |-> get_investor_earnings_summary(
                                    u, investments, dists)])
            /\ Reply("get_earnings_summary", u, 200, "")
  /\ UNCHANGED <<db, nextId, pc, loc, now, distOk>>

\* time passes
Tick ==
  /\ now < MaxTime
  /\ now' = now + 1
  /\ UNCHANGED <<db, nextId, pc, loc, response, distOk, summary>>

\* ------------------------------------------------------------------ Next
\* the ids a request can name: those of the stored rows, and the next one
\* of the sequence, which no row has
Ids(table, next) == {r.id : r \in table} \cup {next}

PropertyIds == Ids(properties, nextId.property)
InvestmentIds == Ids(investments, nextId.investment)
RevenueIds == Ids(revenues, nextId.revenue)
DistributionIds == Ids(dists, nextId.dist)

\* the requests of session s made by user u, with the request bodies drawn
\* from the given sets
CreateProperty(s, u, createTf) ==
  \E tf \in createTf : create_property(s, u, tf)

UpdateProperty(s, u, patchTf) ==
  \E pid \in PropertyIds, tf \in Patch(patchTf) :
    update_property(s, u, pid, tf)

DeleteProperty(s, u) == \E pid \in PropertyIds : delete_property(s, u, pid)

InvestmentOps(s, u, owners, fos) ==
  \E uid \in owners, pid \in PropertyIds, fo \in fos :
    assign_investment(s, u, uid, pid, fo, 1, 1)

CreateRevenue(s, u, months, gs, es) ==
  \E pid \in PropertyIds, m \in months, y \in YearVals, g \in gs, e \in es :
    create_revenue_record(s, u, pid, m, y, g, e)

UpdateRevenue(s, u, gs, es) ==
  \E rid \in RevenueIds, g \in Patch(gs), e \in Patch(es) :
    update_revenue_record(s, u, rid, g, e)

Distribute(s, u) == \E rid \in RevenueIds : distribute_revenue(s, u, rid)

\* the later steps of the handlers that session s has begun
Steps(s) ==
  \/ create_revenue_commit(s)
  \/ update_revenue_commit(s)
  \/ distribute_property(s)
  \/ distribute_investments(s)
  \/ distribute_commit(s)

\* Two administrator sessions.  Session s1 sets up the ledger, one property
\* at a time, and edits revenue periods; both sessions distribute.  Every
\* interleaving of the reads and the commit of a distribute call with
\* another distribute call, with an edit of the period and with the ledger
\* operations occurs.
Next ==
  \/ properties = {} /\ CreateProperty("s1", 1, {None, Some(2)})
  \/ UpdateProperty("s1", 1, {Some(0)})
  \/ DeleteProperty("s1", 1)
  \/ InvestmentOps("s1", 1, {2}, {None, Some(2)})
  \/ CreateRevenue("s1", 1, {1}, {4}, ExpenseVals)
  \/ UpdateRevenue("s1", 1, {2}, {})
  \/ \E s \in Sessions : Distribute(s, 1)
  \/ \E s \in Sessions : Steps(s)

Spec == Init /\ [][Next]_vars

\* Two administrator sessions that record revenue periods concurrently.
NextRevenue ==
  \/ properties = {} /\ CreateProperty("s1", 1, {Some(2)})
  \/ DeleteProperty("s1", 1)
  \/ \E s \in Sessions : CreateRevenue(s, 1, MonthVals, GrossVals, {0})
  \/ \E s \in Sessions : create_revenue_commit(s)

SpecRevenue == Init /\ [][NextRevenue]_vars

UpdateValuation(s, u, cvs) ==
  \E iid \in InvestmentIds, cv \in cvs :
    update_investment_valuation(s, u, iid, cv)

UpdateStatus(s, u, bodies) ==
  \E did \in DistributionIds, st \in DistributionStatus, b \in bodies :
    update_distribution_status(s, u, did, st, b[1], b[2])

\* One administrator session that runs the operations of the ledger one
\* request after the other: it issues investments, revalues them, changes
\* the property, records, edits and distributes a revenue period and
\* settles the distributions.
NextLedger ==
  \/ properties = {} /\ CreateProperty("s1", 1, {Some(2)})
  \/ UpdateProperty("s1", 1, {Some(4)})
  \/ InvestmentOps("s1", 1, {2}, {Some(1)})
  \/ UpdateValuation("s1", 1, {2})
  \/ CreateRevenue("s1", 1, {1}, {4}, {0})
  \/ UpdateRevenue("s1", 1, {2}, {})
  \/ Distribute("s1", 1)
  \/ Steps("s1")
  \/ UpdateStatus("s1", 1, {<<Some("ref"), Some("note")>>})

SpecLedger == Init /\ [][NextLedger]_vars

\* the steps of a distribute call after its first query
DistributeSteps(s) ==
  \/ distribute_property(s)
  \/ distribute_investments(s)
  \/ distribute_commit(s)

\* the scenario of the revenue distribution: 1000 fractions, holdings of
\* 300 and 200 fractions, gross revenue 2,500,000 and expenses 350,000.
\* Money is counted in thousands, so that every product stays below 2^31.
ShareVals == {300, 200}
ScenarioFractions == 1000
ScenarioGross == 2500
ScenarioExpenses == 350

\* One administrator session, one request after the other, on two
\* fractional properties.  Investments with no, zero and nonzero
\* fractions_owned are assigned to either property, periods are recorded
\* and distributed, and total_fractions is changed afterwards.
NextShares ==
  \/ CreateProperty("s1", 1, {Some(ScenarioFractions)})
  \/ UpdateProperty("s1", 1, {Some(2 * ScenarioFractions)})
  \/ InvestmentOps("s1", 1, {2},
                   {None, Some(0)} \cup {Some(f) : f \in ShareVals})
  \/ CreateRevenue("s1", 1, {1}, {ScenarioGross}, {ScenarioExpenses})
  \/ create_revenue_commit("s1")
  \/ Distribute("s1", 1)
  \/ DistributeSteps("s1")

SpecShares == Init /\ [][NextShares]_vars

\* One administrator session, one request after the other, on one property
\* at a time, created with or without fractions and changed to zero or to a
\* negative number of fractions; periods with negative, zero and positive
\* net income are recorded and distributed, with and without investments;
\* fractions_owned is any optional integer, also a negative one.
NextPreconditions ==
  \/ /\ properties = {}
     /\ CreateProperty("s1", 1, {None, Some(ScenarioFractions)})
  \/ UpdateProperty("s1", 1, {Some(0), Some(-ScenarioFractions)})
  \/ DeleteProperty("s1", 1)
  \/ InvestmentOps("s1", 1, {2}, {None, Some(300), Some(-300)})
  \/ CreateRevenue("s1", 1, {1}, {0, ScenarioExpenses, ScenarioGross},
                   {ScenarioExpenses})
  \/ create_revenue_commit("s1")
  \/ Distribute("s1", 1)
  \/ DistributeSteps("s1")

SpecPreconditions == Init /\ [][NextPreconditions]_vars

\* the payment_reference and notes of a DistributionStatusUpdate body: left
\* out, empty strings, and texts
StatusBodies ==
  {<<None, None>>, <<Some(""), Some("")>>, <<Some("ref"), Some("note")>>}

\* One administrator session that distributes the period of a property with
\* two holders and then settles the distributions, in any order and any
\* number of times, while time passes.
NextStatus ==
  \/ properties = {} /\ CreateProperty("s1", 1, {Some(2)})
  \/ InvestmentOps("s1", 1, {2}, {Some(1)})
  \/ CreateRevenue("s1", 1, {1}, {4}, {0})
  \/ create_revenue_commit("s1")
  \/ Distribute("s1", 1)
  \/ DistributeSteps("s1")
  \/ UpdateStatus("s1", 1, StatusBodies)
  \/ Tick

SpecStatus == Init /\ [][NextStatus]_vars

\* One administrator session that assigns investments in two properties to
\* both users, distributes periods and settles distributions, while either
\* user asks for the summary of their earnings.
NextSummary ==
  \/ CreateProperty("s1", 1, {Some(2)})
  \/ InvestmentOps("s1", 1, UserIds, {Some(1)})
  \/ CreateRevenue("s1", 1, {1}, {4}, {0})
  \/ create_revenue_commit("s1")
  \/ Distribute("s1", 1)
  \/ DistributeSteps("s1")
  \/ UpdateStatus("s1", 1, {<<None, None>>})
  \/ \E u \in UserIds : get_earnings_summary("s1", u)

SpecSummary == Init /\ [][NextSummary]_vars

\* the operations of the two routers that depend on require_admin
AdminOperations ==
  {"update_user_role", "create_property", "update_property",
   "delete_property", "assign_investment", "update_investment_valuation",
   "create_revenue_record", "update_revenue_record", "distribute_revenue",
   "update_distribution_status"}

UpdateUserRole(s, u, roles) ==
  \E uid \in UserIds \cup {Cardinality(UserIds) + 1}, role \in roles :
    update_user_role(s, u, uid, role)

\* a request of user u to an admin-only operation: served when u passes
\* require_admin, refused otherwise
AdminRequest(s, u) ==
  \/ properties = {} /\ CreateProperty(s, u, {Some(2)})
  \/ UpdateProperty(s, u, {Some(2)})
  \/ DeleteProperty(s, u)
  \/ InvestmentOps(s, u, {2}, {Some(1)})
  \/ UpdateValuation(s, u, {1})
  \/ CreateRevenue(s, u, {1}, {4}, {0})
  \/ UpdateRevenue(s, u, {4}, {})
  \/ Distribute(s, u)
  \/ UpdateStatus(s, u, {<<None, None>>})
  \/ UpdateUserRole(s, u, {"INVESTOR", "ADMIN"})
  \/ \E op \in AdminOperations : Forbidden(s, u, op, 0)

\* One session in which both users, the administrator and the investor,
\* call the admin-only operations, and roles are granted and withdrawn.
NextRbac ==
  \/ \E u \in UserIds : AdminRequest("s1", u)
  \/ Steps("s1")

SpecRbac == Init /\ [][NextRbac]_vars

\* ============================================================== claims
RowsOf(rid) == {d \in dists : d.property_revenue_id = rid}

AlreadyDistributed ==
  Resp("distribute_revenue", 400, "Revenue already distributed")

\* the five ValueError messages of the service that the spec names
DistributeFailures ==
  {"Revenue record not found", "Revenue already distributed",
   "Property not found", "Property does not use fractional ownership",
   "No investments found for this property",
   "Net income must be positive to distribute"}

\* the step is the successful commit of a distribute call of session s
DistributeSucceeds(s) == distribute_commit(s) /\ response'.code = 200

\* C1: of the distribute calls on one revenue period, concurrent or not,
\* exactly one succeeds: no revenue period is distributed by two runs.
C1_OneRunPerPeriod == \A rid \in DOMAIN distOk : distOk[rid] <= 1

\* C2: there is at most one EarningsDistribution row for each
\* (revenue period, investment) pair.
C2_OneRowPerPeriodAndInvestment ==
  \A d1 \in dists, d2 \in dists :
    (d1.property_revenue_id = d2.property_revenue_id
       /\ d1.investment_id = d2.investment_id) => d1 = d2

\* C3: a distribute call that begins on a period an earlier call has
\* distributed fails with "Revenue already distributed" and leaves the rows
\* and the period as the first call left them; and the period is only ever
\* marked distributed by a call that succeeded.
C3_SecondDistributeFails ==
  [][/\ \A r \in revenues, s \in Sessions, u \in UserIds :
          (/\ r.distributed
           /\ pc[s] = "idle"
           /\ distribute_revenue(s, u, r.id))
          => (response' = AlreadyDistributed /\ pc'[s] = "idle"
                /\ UNCHANGED <<db, nextId, distOk>>)
     /\ \A r \in revenues' :
          r.distributed => (r.id \in DOMAIN distOk' /\ distOk'[r.id] >= 1)]_vars

C3_Witness ==
  /\ response = AlreadyDistributed
  /\ \E r \in revenues :
       r.distributed /\ r.id \in DOMAIN distOk /\ distOk[r.id] = 1
         /\ RowsOf(r.id) # {}

\* C4: the rows of a run and the distributed flag become visible together:
\* a period that is not distributed has no row, in particular while a run
\* on it is between its reads and its commit.
C4_RowsOnlyOfDistributedPeriods ==
  /\ \A d \in dists :
       /\ Has(revenues, d.property_revenue_id)
       /\ Row(revenues, d.property_revenue_id).distributed
  /\ \A r \in revenues : r.distributed <=> r.distribution_date # None

C4_Witness ==
  /\ response = Resp("distribute_revenue", 200, "Created distribution records")
  /\ \E r \in revenues :
       r.distributed /\ r.id \in DOMAIN distOk /\ distOk[r.id] = 1
         /\ Cardinality(RowsOf(r.id)) = 2

\* C5: a distribute call that fails with one of the ValueErrors has written
\* nothing: the step that answers 400 leaves every stored row and every
\* sequence as it was, and so does every step that takes a call from one
\* check to the next.
C5_FailedDistributeWritesNothing ==
  [][/\ (response'.op = "distribute_revenue" /\ response'.code = 400)
          => /\ UNCHANGED <<db, nextId, distOk>>
             /\ response'.detail \in DistributeFailures
     /\ \A s \in Sessions :
          (/\ pc'[s] # pc[s]
           /\ pc'[s] \in {"distribute_property", "distribute_investments",
                          "distribute_commit"})
          => UNCHANGED <<db, nextId, distOk>>]_vars

C5_Witness ==
  /\ response = Resp("distribute_revenue", 400,
                     "Net income must be positive to distribute")
  /\ \E r \in revenues : ~r.distributed /\ net_income(r) <= 0
  /\ \E i \in investments : TruthyInt(i.fractions_owned)

\* C6: a revenue period is created with distributed = false, the flag never
\* goes back to false, and only the commit of a successful distribute call
\* on that period changes it.
C6_DistributedFlagLifecycle ==
  [][/\ \A r \in revenues' : ~Has(revenues, r.id) => ~r.distributed
     /\ \A r \in revenues :
          Has(revenues', r.id) =>
            /\ r.distributed => Row(revenues', r.id).distributed
            /\ r.distributed # Row(revenues', r.id).distributed
                 => \E s \in Sessions :
                      /\ DistributeSucceeds(s)
                      /\ loc[s].revenue.id = r.id]_vars

\* an edit that was read before the period was distributed has been
\* committed after it, and the flag is still set
C6_Witness ==
  /\ response = Resp("update_revenue_record", 200, "")
  /\ \E r \in revenues : r.distributed /\ r.gross_revenue = 2

\* C7: once a revenue period is distributed its gross_revenue and expenses
\* never change.
C7_DistributedRevenueIsFrozen ==
  [][\A r \in revenues :
       (r.distributed /\ Has(revenues', r.id))
       => /\ Row(revenues', r.id).gross_revenue = r.gross_revenue
          /\ Row(revenues', r.id).expenses = r.expenses]_vars

\* C8: there is at most one revenue period per (property, month, year).
C8_OnePeriodPerPropertyMonthYear ==
  \A r1 \in revenues, r2 \in revenues :
    (r1.property_id = r2.property_id /\ r1.month = r2.month
       /\ r1.year = r2.year) => r1 = r2

\* sum of fractions_owned (None counts as 0) over a set of investments
RECURSIVE SumFractions(_)
SumFractions(invs) ==
  IF invs = {} THEN 0
  ELSE LET i == CHOOSE x \in invs : TRUE
       IN (IF i.fractions_owned = None THEN 0 ELSE i.fractions_owned[1])
            + SumFractions(invs \ {i})

\* C9: the fractions owned in a fractional property never exceed its
\* total_fractions.
C9_FractionsWithinTotal ==
  \A p \in properties :
    is_fractional(p) =>
      SumFractions({i \in investments : i.property_id = p.id})
        <= p.total_fractions[1]

\* C10: the fractions_owned, ownership_percentage and earnings_amount of an
\* EarningsDistribution row, and the period and investment it belongs to,
\* are the same after every step as before it, for as long as the row
\* exists.
C10_SnapshotFieldsNeverChange ==
  [][\A d \in dists :
       Has(dists', d.id) =>
         LET e == Row(dists', d.id)
         IN /\ e.fractions_owned = d.fractions_owned
            /\ e.ownership_percentage = d.ownership_percentage
            /\ e.earnings_amount = d.earnings_amount
            /\ e.property_revenue_id = d.property_revenue_id
            /\ e.investment_id = d.investment_id]_vars

\* a cancelled row with payment metadata whose investment has since been
\* revalued and whose property has since changed its total_fractions
C10_Witness ==
  \E d \in dists :
    /\ d.status = "CANCELLED"
    /\ d.payment_reference # None
    /\ d.paid_date # None
    /\ Row(investments, d.investment_id).current_value = 2
    /\ Row(properties,
           Row(investments, d.investment_id).property_id).total_fractions
         = Some(4)
    /\ d.ownership_percentage = <<100, 2>>
    /\ Cardinality(investments) = 2

\* the step is the commit of a distribute call of session s that answers 200
DistributeCommitted(s) ==
  /\ pc[s] = "distribute_commit"
  /\ pc'[s] = "idle"
  /\ response' = Resp("distribute_revenue", 200,
                      "Created distribution records")

\* the rows the step inserts
CreatedRows == dists' \ dists

\* C11: a successful distribute creates exactly one row, with status PENDING
\* and the investment's fractions_owned, for each investment of the period's
\* property whose fractions_owned is present and nonzero, and no row for any
\* other investment.
C11_OneRowPerQualifyingInvestment ==
  [][\A s \in Sessions :
       DistributeCommitted(s) =>
         LET revenue == Row(revenues, loc[s].revenue.id)
         IN /\ \A i \in investments :
                 (/\ i.property_id = revenue.property_id
                  /\ i.fractions_owned # None
                  /\ i.fractions_owned[1] # 0)
                 => /\ Cardinality({d \in CreatedRows :
                                      d.investment_id = i.id}) = 1
                    /\ \A d \in CreatedRows :
                         d.investment_id = i.id =>
                           /\ d.status = "PENDING"
                           /\ d.fractions_owned = i.fractions_owned[1]
                           /\ d.property_revenue_id = revenue.id
                           /\ ~Has(dists, d.id)
            /\ \A d \in CreatedRows :
                 \E i \in investments :
                   /\ i.id = d.investment_id
                   /\ i.property_id = revenue.property_id
                   /\ i.fractions_owned # None
                   /\ i.fractions_owned[1] # 0]_vars

\* a run has given one row to the holder of 300 fractions and none to the
\* investment of the same property with fractions_owned = 0
C11_Witness ==
  /\ response = Resp("distribute_revenue", 200, "Created distribution records")
  /\ \E r \in revenues, i \in investments, j \in investments :
       /\ r.distributed
       /\ i.property_id = r.property_id /\ i.fractions_owned = Some(300)
       /\ j.property_id = r.property_id /\ j.fractions_owned = Some(0)
       /\ Cardinality(RowsOf(r.id)) = 1
       /\ \A d \in RowsOf(r.id) : d.investment_id = i.id

\* C12: every row a run creates has earnings_amount = fractions_owned /
\* total_fractions * net_income and ownership_percentage = fractions_owned /
\* total_fractions * 100, with the fractions_owned of its investment, the
\* total_fractions of the property and gross_revenue - expenses of the
\* period as they are stored when the run commits.
C12_EarningsAndPercentage ==
  [][\A s \in Sessions :
       DistributeCommitted(s) =>
         \A d \in CreatedRows :
           LET i == Row(investments, d.investment_id)
               p == Row(properties, i.property_id)
               r == Row(revenues, d.property_revenue_id)
               fo == i.fractions_owned[1]
               tf == p.total_fractions[1]
           IN /\ d.earnings_amount[2] # 0
              /\ d.ownership_percentage[2] # 0
              /\ d.earnings_amount[1] * tf
                   = fo * (r.gross_revenue - r.expenses)
                        * d.earnings_amount[2]
              /\ d.ownership_percentage[1] * tf
                   = fo * 100 * d.ownership_percentage[2]]_vars

\* the rational q is the integer n
IsNumber(q, n) == q[2] # 0 /\ q[1] = n * q[2]

\* 300 and 200 of 1000 fractions with net income 2,150 thousand: 30 percent
\* and 645 thousand, 20 percent and 430 thousand; total_fractions has
\* changed since
C12_Witness ==
  \E r \in revenues, a \in dists, b \in dists :
    /\ r.distributed /\ net_income(r) = 2150
    /\ RowsOf(r.id) = {a, b}
    /\ a.fractions_owned = 300 /\ b.fractions_owned = 200
    /\ IsNumber(a.ownership_percentage, 30)
    /\ IsNumber(a.earnings_amount, 645)
    /\ IsNumber(b.ownership_percentage, 20)
    /\ IsNumber(b.earnings_amount, 430)
    /\ Row(properties, r.property_id).total_fractions
         = Some(2 * ScenarioFractions)

\* sum of the numerators of the earnings_amount of a set of rows
RECURSIVE SumEarnings(_)
SumEarnings(rows) ==
  IF rows = {} THEN 0
  ELSE LET d == CHOOSE x \in rows : TRUE
       IN d.earnings_amount[1] + SumEarnings(rows \ {d})

\* C13: for one run, the sum of earnings_amount over the created rows times
\* total_fractions equals net_income times the sum of fractions_owned of
\* the qualifying investments: what belongs to fractions nobody holds is
\* given to nobody.
C13_EarningsSum ==
  [][\A s \in Sessions :
       DistributeCommitted(s) =>
         LET r == Row(revenues, loc[s].revenue.id)
             p == Row(properties, r.property_id)
             held == {i \in investments :
                        /\ i.property_id = r.property_id
                        /\ i.fractions_owned # None
                        /\ i.fractions_owned[1] # 0}
         IN /\ \A d \in CreatedRows :
                 d.earnings_amount[2] = p.total_fractions[1]
            /\ SumEarnings(CreatedRows)
                 = net_income(r) * HeldFractions(held)]_vars

\* a run on a property of 1000 fractions of which 500 are held has given out
\* half of the net income
C13_Witness ==
  /\ response = Resp("distribute_revenue", 200, "Created distribution records")
  /\ \E r \in revenues :
       /\ r.distributed
       /\ Cardinality(RowsOf(r.id)) = 2
       /\ \A d \in RowsOf(r.id) : d.earnings_amount[2] = ScenarioFractions
       /\ 2 * SumEarnings(RowsOf(r.id)) = net_income(r) * ScenarioFractions
       /\ net_income(r) > 0

\* session s takes a step while its distribute call is at the given check
StepAt(s, at) == pc[s] = at /\ pc'[s] # at

\* the period of the distribute call of session s, as stored
Period(s) == Row(revenues, loc[s].revenue.id)

\* the call of session s ends with the ValueError detail and nothing
\* written: no row is created and the period stays undistributed
FailsWith(s, detail) ==
  /\ response' = Resp("distribute_revenue", 400, detail)
  /\ pc'[s] = "idle"
  /\ UNCHANGED <<db, nextId, distOk>>
  /\ RowsOf(loc[s].revenue.id) = {}
  /\ ~Period(s).distributed

\* C14: a distribute call on a period whose property has total_fractions
\* absent, zero or negative fails with "Property does not use fractional
\* ownership", creates no row and leaves the period undistributed.
C14_NotFractionalFails ==
  [][\A s \in Sessions :
       (/\ StepAt(s, "distribute_property")
        /\ \E p \in properties :
             /\ p.id = Period(s).property_id
             /\ \/ p.total_fractions = None
                \/ p.total_fractions[1] <= 0)
       => FailsWith(s, "Property does not use fractional ownership")]_vars

\* the call failed on a property with zero fractions that has an investment
\* and a period with positive net income
C14_Witness ==
  /\ response = Resp("distribute_revenue", 400,
                     "Property does not use fractional ownership")
  /\ \E p \in properties, r \in revenues, i \in investments :
       /\ p.total_fractions = Some(0)
       /\ r.property_id = p.id /\ ~r.distributed /\ net_income(r) > 0
       /\ i.property_id = p.id /\ i.fractions_owned = Some(300)
       /\ RowsOf(r.id) = {}

\* C15: a distribute call on a period whose gross_revenue - expenses is zero
\* or negative fails, creates no row and leaves the period undistributed;
\* it fails with "Net income must be positive to distribute" when the
\* property has an investment.
C15_NonPositiveIncomeFails ==
  [][\A s \in Sessions :
       (/\ StepAt(s, "distribute_investments")
        /\ Period(s).gross_revenue - Period(s).expenses <= 0)
       => IF \E i \in investments : i.property_id = Period(s).property_id
            THEN FailsWith(s, "Net income must be positive to distribute")
            ELSE FailsWith(s, "No investments found for this property")]_vars

\* the call failed on a period with net income zero of a fractional
\* property with a holder of 300 fractions
C15_Witness ==
  /\ response = Resp("distribute_revenue", 400,
                     "Net income must be positive to distribute")
  /\ \E p \in properties, r \in revenues, i \in investments :
       /\ p.total_fractions = Some(ScenarioFractions)
       /\ r.property_id = p.id /\ ~r.distributed
       /\ r.gross_revenue = r.expenses
       /\ i.property_id = p.id /\ i.fractions_owned = Some(300)
       /\ RowsOf(r.id) = {}

\* C16: a distribute call on a period whose property has no investment at
\* all fails with "No investments found for this property" (HTTP 400),
\* creates no row and leaves the period undistributed.
C16_NoInvestmentsFails ==
  [][\A s \in Sessions :
       (/\ StepAt(s, "distribute_investments")
        /\ ~\E i \in investments : i.property_id = Period(s).property_id)
       => FailsWith(s, "No investments found for this property")]_vars

\* the call failed on a period with positive net income of a fractional
\* property without investments
C16_Witness ==
  /\ response = Resp("distribute_revenue", 400,
                     "No investments found for this property")
  /\ investments = {}
  /\ \E p \in properties, r \in revenues :
       /\ p.total_fractions = Some(ScenarioFractions)
       /\ r.property_id = p.id /\ ~r.distributed /\ net_income(r) > 0
       /\ RowsOf(r.id) = {}

\* the step is an update_distribution_status request for distribution did
\* with new status st
StatusRequest(did, st) ==
  \E s \in Sessions, u \in UserIds, b \in StatusBodies :
    update_distribution_status(s, u, did, st, b[1], b[2])

\* C17: update_distribution_status on an existing distribution is accepted
\* for every current status and every new status, and the distribution has
\* the new status afterwards.
C17_AnyStatusToAnyStatus ==
  [][\A d \in dists, st \in DistributionStatus :
       StatusRequest(d.id, st)
       => /\ response' = Resp("update_distribution_status", 200, "")
          /\ Row(dists', d.id).status = st]_vars

\* a distribution that was PAID has been moved back to PENDING
C17_Witness ==
  /\ response = Resp("update_distribution_status", 200, "")
  /\ \E d \in dists : d.status = "PENDING" /\ d.paid_date # None

\* C18, as stated: the status of a distribution only ever changes from
\* PENDING to PAID or from PENDING to CANCELLED.
C18_StatusOnlyLeavesPending ==
  [][\A d \in dists :
       (Has(dists', d.id) /\ Row(dists', d.id).status # d.status)
       => /\ d.status = "PENDING"
          /\ Row(dists', d.id).status \in {"PAID", "CANCELLED"}]_vars

\* C18, amended: a distribution is created PENDING, its status changes only
\* by an update_distribution_status request for it, and that request may
\* take it from any of PENDING, PAID and CANCELLED to any other.
C18_StatusChangesOnlyByUpdate ==
  [][/\ \A d \in dists' : ~Has(dists, d.id) => d.status = "PENDING"
     /\ \A d \in dists :
          (Has(dists', d.id) /\ Row(dists', d.id).status # d.status)
          => StatusRequest(d.id, Row(dists', d.id).status)]_vars

\* a distribution that was PAID has been CANCELLED
C18_Witness ==
  \E d \in dists :
    /\ d.status = "CANCELLED"
    /\ d.paid_date # None
    /\ d.payment_reference = None

\* C19: once paid_date is set, a later update to PAID leaves it unchanged.
C19_PaidDateSetOnce ==
  [][\A d \in dists :
       (Has(dists', d.id) /\ d.paid_date # None)
       => Row(dists', d.id).paid_date = d.paid_date]_vars

\* C20: update_distribution_status changes only status, paid_date,
\* payment_reference and notes of the distribution it names and leaves every
\* other row of every table as it is; for a distribution that does not
\* exist it answers 404 "Distribution not found" and changes nothing.
C20_StatusUpdateFrame ==
  [][\A did \in DistributionIds, st \in DistributionStatus :
       StatusRequest(did, st)
       => /\ UNCHANGED <<users, properties, investments, revenues, nextId,
                         distOk>>
          /\ {d.id : d \in dists'} = {d.id : d \in dists}
          /\ \A d \in dists :
               IF d.id # did
                 THEN d \in dists'
                 ELSE [Row(dists', did) EXCEPT
                         !.status = d.status,
                         !.paid_date = d.paid_date,
                         !.payment_reference = d.payment_reference,
                         !.notes = d.notes] = d
          /\ ~Has(dists, did)
               => /\ response' = Resp("update_distribution_status", 404,
                                      "Distribution not found")
                  /\ UNCHANGED dists]_vars

\* one of the two distributions of a period has been paid with a reference
\* and the other is as the run created it
C20_Witness ==
  /\ response = Resp("update_distribution_status", 200, "")
  /\ \E d \in dists, e \in dists :
       /\ d.property_revenue_id = e.property_revenue_id
       /\ d.status = "PAID" /\ d.payment_reference = Some("ref")
       /\ d.notes = Some("note") /\ d.paid_date = Some(1)
       /\ e.status = "PENDING" /\ e.payment_reference = None
       /\ e.notes = None /\ e.paid_date = None

\* the two rationals are the same number
RatEq(a, b) == a[2] # 0 /\ b[2] # 0 /\ a[1] * b[2] = b[1] * a[2]

\* the distribution rows of the investments of user u
RowsOfUser(u) ==
  {d \in dists : Row(investments, d.investment_id).user_id = u}

\* a common multiple of the denominators of the amounts of the rows
RECURSIVE CommonDenominator(_)
CommonDenominator(rows) ==
  IF rows = {} THEN 1
  ELSE LET d == CHOOSE x \in rows : TRUE
       IN d.earnings_amount[2] * CommonDenominator(rows \ {d})

\* the sum of the amounts of the rows, as a multiple of 1/D
RECURSIVE ScaledSum(_, _)
ScaledSum(rows, D) ==
  IF rows = {} THEN 0
  ELSE LET d == CHOOSE x \in rows : TRUE
       IN d.earnings_amount[1] * (D \div d.earnings_amount[2])
            + ScaledSum(rows \ {d}, D)

\* the rational q is the sum of the amounts of the rows
IsSumOf(q, rows) ==
  RatEq(q, <<ScaledSum(rows, CommonDenominator(dists)),
             CommonDenominator(dists)>>)

\* C21: the summary returned for a user has total_earnings, total_paid and
\* total_pending equal to the sums of earnings_amount over all, the PAID and
\* the PENDING distribution rows of the user's investments,
\* distributions_count the number of those rows and properties_count the
\* number of distinct properties of their investments; with no rows all five
\* are zero and the request still answers 200.
C21_SummaryAggregates ==
  response = Resp("get_earnings_summary", 200, "") =>
    /\ summary # None
    /\ LET result == summary[1].result
           own == RowsOfUser(summary[1].user_id)
       IN /\ IsSumOf(result.total_earnings, own)
          /\ IsSumOf(result.total_paid, {d \in own : d.status = "PAID"})
          /\ IsSumOf(result.total_pending,
                     {d \in own : d.status = "PENDING"})
          /\ result.distributions_count = Cardinality(own)
          /\ result.properties_count =
               Cardinality({p \in properties :
                  \E d \in own :
                    Row(investments, d.investment_id).property_id = p.id})
          /\ own = {} =>
               /\ result.total_earnings[1] = 0
               /\ result.total_paid[1] = 0
               /\ result.total_pending[1] = 0
               /\ result.distributions_count = 0
               /\ result.properties_count = 0

\* the summary of user 2, who has a PAID row in one property and a
\* CANCELLED row in the other, while user 1 has none
C21_Witness ==
  /\ response = Resp("get_earnings_summary", 200, "")
  /\ summary # None
  /\ summary[1].user_id = 2
  /\ summary[1].result.distributions_count = 2
  /\ summary[1].result.properties_count = 2
  /\ RatEq(summary[1].result.total_earnings, <<4, 1>>)
  /\ RatEq(summary[1].result.total_paid, <<2, 1>>)
  /\ RatEq(summary[1].result.total_pending, <<0, 1>>)
  /\ \E d \in dists : d.status = "CANCELLED"

\* C22: get_earnings_summary changes no stored row, and what it returns for
\* user u is what it returns on the investments of u and their distribution
\* rows alone: it is a function of those rows, so two states that agree on
\* them give the same summary whatever the other users hold.
C22_SummaryReadsOwnRowsOnly ==
  [][(/\ response'.op = "get_earnings_summary"
      /\ response' # response \/ summary' # summary)
     => /\ UNCHANGED <<db, nextId, distOk, pc, loc, now>>
        /\ response'.code = 200
             => /\ summary' # None
                /\ summary'[1].result =
                     get_investor_earnings_summary(
                       summary'[1].user_id,
                       {i \in investments :
                          i.user_id = summary'[1].user_id},
                       RowsOfUser(summary'[1].user_id))]_vars

\* the summary of user 2 counts their one row while user 1 has a row of the
\* same period
C22_Witness ==
  /\ response = Resp("get_earnings_summary", 200, "")
  /\ summary # None
  /\ summary[1].user_id = 2
  /\ summary[1].result.distributions_count = 1
  /\ RatEq(summary[1].result.total_earnings, <<2, 1>>)
  /\ \E d \in RowsOfUser(1), e \in RowsOfUser(2) :
       d.property_revenue_id = e.property_revenue_id

\* C23: every EarningsDistribution row references a stored revenue period
\* and a stored investment; a row disappears only together with its period
\* or its investment, and periods and investments disappear only by
\* delete_property.
C23_RowsFollowTheirParents ==
  [][/\ \A d \in dists' :
          /\ Has(revenues', d.property_revenue_id)
          /\ Has(investments', d.investment_id)
     /\ \A d \in dists :
          ~Has(dists', d.id)
          => \/ ~Has(revenues', d.property_revenue_id)
             \/ ~Has(investments', d.investment_id)
     /\ (\/ \E r \in revenues : ~Has(revenues', r.id)
         \/ \E i \in investments : ~Has(investments', i.id))
        => response' = Resp("delete_property", 204, "")]_vars

\* a property with a distributed period and two rows has been deleted, and
\* the rows with it
C23_Witness ==
  /\ response = Resp("delete_property", 204, "")
  /\ nextId.dist = 3
  /\ dists = {} /\ revenues = {} /\ investments = {} /\ properties = {}

\* C24: a request to an admin-only operation by a user whose role is not
\* ADMIN is answered with 403 and changes no stored row.
C24_NonAdminIsRejected ==
  [][\A s \in Sessions, u \in UserIds :
       (users[u] # "ADMIN" /\ AdminRequest(s, u))
       => /\ response'.code = 403
          /\ response'.detail = "Access denied. Admin privileges required."
          /\ UNCHANGED <<db, nextId, pc, loc, distOk>>]_vars

\* the investor has been refused a distribute call while a period of a
\* property with a holder waits to be distributed
C24_Witness ==
  /\ response = Resp("distribute_revenue", 403,
                     "Access denied. Admin privileges required.")
  /\ users[2] = "INVESTOR"
  /\ \E r \in revenues, i \in investments :
       ~r.distributed /\ i.property_id = r.property_id /\ RowsOf(r.id) = {}

\* the first precondition of distribute that fails for revenue id rid, in
\* the order of the specification; "" when all hold
FirstFailure(rid) ==
  IF ~Has(revenues, rid) THEN "Revenue record not found"
  ELSE LET r == Row(revenues, rid)
       IN IF r.distributed THEN "Revenue already distributed"
          ELSE IF ~Has(properties, r.property_id) THEN "Property not found"
          ELSE LET p == Row(properties, r.property_id)
               IN IF p.total_fractions = None \/ p.total_fractions[1] <= 0
                    THEN "Property does not use fractional ownership"
                  ELSE IF ~\E i \in investments : i.property_id = p.id
                    THEN "No investments found for this property"
                  ELSE IF r.gross_revenue - r.expenses <= 0
                    THEN "Net income must be positive to distribute"
                  ELSE ""

\* the step of session s answers 400 with the first failure of rid if that
\* is one of the given failures, and goes on to the next check otherwise
Reports(s, rid, failures, next) ==
  IF FirstFailure(rid) \in failures
    THEN /\ response' = Resp("distribute_revenue", 400, FirstFailure(rid))
         /\ pc'[s] = "idle"
    ELSE pc'[s] = next

\* C25: a distribute call reports the first precondition that fails, in the
\* order: period not found, already distributed, property not found,
\* property not fractional, no investments, net income not positive; it
\* succeeds only when none fails.
C25_FirstFailureIsReported ==
  [][\A s \in Sessions :
       /\ \A rid \in RevenueIds, u \in UserIds :
            distribute_revenue(s, u, rid)
            => Reports(s, rid, {"Revenue record not found",
                                "Revenue already distributed"},
                       "distribute_property")
       /\ StepAt(s, "distribute_property")
            => Reports(s, loc[s].revenue.id,
                       {"Property not found",
                        "Property does not use fractional ownership"},
                       "distribute_investments")
       /\ StepAt(s, "distribute_investments")
            => Reports(s, loc[s].revenue.id,
                       {"No investments found for this property",
                        "Net income must be positive to distribute"},
                       "distribute_commit")
       /\ StepAt(s, "distribute_commit")
            => /\ FirstFailure(loc[s].revenue.id) = ""
               /\ response' = Resp("distribute_revenue", 200,
                                   "Created distribution records")]_vars

\* a call on a period with net income zero of a property without
\* investments has reported the missing investments
C25_Witness ==
  /\ response = Resp("distribute_revenue", 400,
                     "No investments found for this property")
  /\ investments = {}
  /\ \E r \in revenues :
       ~r.distributed /\ r.gross_revenue - r.expenses <= 0

\* the step belongs to a distribute call of session s
DistributeStep(s) ==
  \/ /\ pc[s] \in {"distribute_property", "distribute_investments",
                   "distribute_commit"}
     /\ pc'[s] # pc[s]
  \/ pc[s] = "idle" /\ pc'[s] = "distribute_property"
  \/ /\ pc[s] = "idle" /\ pc' = pc
     /\ response'.op = "distribute_revenue" /\ response' # response

\* C26: no step of a distribute call, successful or failed, changes a user,
\* an Investment or a Property row; the only writes are new
\* EarningsDistribution rows of the addressed period and the distributed
\* flag and distribution_date of that period.
C26_DistributeFrame ==
  [][\A s \in Sessions :
       DistributeStep(s)
       => /\ UNCHANGED <<users, properties, investments>>
          /\ dists \subseteq dists'
          /\ {r.id : r \in revenues'} = {r.id : r \in revenues}
          /\ \A r \in revenues :
               \/ r \in revenues'
               \/ /\ pc[s] = "distribute_commit"
                  /\ r.id = loc[s].revenue.id
                  /\ [r EXCEPT !.distributed = TRUE,
                               !.distribution_date = Some(now)] \in revenues'
          /\ \A d \in dists' \ dists :
               /\ pc[s] = "distribute_commit"
               /\ d.property_revenue_id = loc[s].revenue.id]_vars

\* a run has succeeded on a property whose fractions_sold is still 0 and
\* whose investment without fractions is as it was assigned
C26_Witness ==
  /\ response = Resp("distribute_revenue", 200, "Created distribution records")
  /\ \E r \in revenues, p \in properties, i \in investments :
       /\ r.distributed /\ r.property_id = p.id /\ i.property_id = p.id
       /\ p.fractions_sold = 0 /\ p.total_fractions = Some(2)
       /\ i.fractions_owned = None /\ i.current_value = 1
       /\ Cardinality(RowsOf(r.id)) = 1

\* the property of the period of the call of session s has investments, and
\* none of them has a nonzero fractions_owned
OnlyHoldersWithoutFractions(s) ==
  LET invs == {i \in investments : i.property_id = Period(s).property_id}
  IN /\ invs # {}
     /\ \A i \in invs : i.fractions_owned = None \/ i.fractions_owned[1] = 0

\* C27: when the property of a period has investments but none with a
\* nonzero fractions_owned and the other preconditions hold, distribute
\* succeeds: it creates no row and marks the period distributed, and every
\* later distribute call on the period fails with "Revenue already
\* distributed".
C27_RunWithoutRecipientsSucceeds ==
  [][\A s \in Sessions :
       /\ (/\ StepAt(s, "distribute_investments")
           /\ OnlyHoldersWithoutFractions(s)
           /\ net_income(Period(s)) > 0)
          => pc'[s] = "distribute_commit"
       /\ (StepAt(s, "distribute_commit") /\ OnlyHoldersWithoutFractions(s))
          => /\ response' = Resp("distribute_revenue", 200,
                                 "Created distribution records")
             /\ dists' = dists
             /\ RowsOf(Period(s).id) = {}
             /\ Row(revenues', Period(s).id).distributed
       /\ \A r \in revenues, u \in UserIds :
            (r.distributed /\ RowsOf(r.id) = {}
               /\ distribute_revenue(s, u, r.id))
            => response' = AlreadyDistributed /\ UNCHANGED db]_vars

\* a second call on a period that was distributed to nobody has failed: the
\* holders of its property have no or zero fractions
C27_Witness ==
  /\ response = AlreadyDistributed
  /\ \E r \in revenues, i \in investments, j \in investments :
       /\ r.distributed /\ RowsOf(r.id) = {} /\ net_income(r) > 0
       /\ i.property_id = r.property_id /\ i.fractions_owned = None
       /\ j.property_id = r.property_id /\ j.fractions_owned = Some(0)
  /\ dists = {}

\* C28: for every revenue period that has EarningsDistribution rows, the sum
\* of earnings_amount over them does not exceed gross_revenue - expenses.
C28_EarningsWithinNetIncome ==
  \A r \in revenues :
    LET total == SumAmounts(RowsOf(r.id))
    IN (RowsOf(r.id) # {} /\ total[2] > 0)
         => total[1] <= net_income(r) * total[2]

\* C29: every EarningsDistribution row has fractions_owned > 0 and
\* earnings_amount > 0.
C29_RowsArePositive ==
  \A d \in dists :
    /\ d.fractions_owned > 0
    /\ d.earnings_amount[1] * d.earnings_amount[2] > 0

\* C30: every EarningsDistribution with status PAID has a paid_date: rows
\* are created PENDING without one, every update to PAID sets it, and no
\* step clears it.
C30_PaidHasPaidDate ==
  [][/\ \A d \in dists' :
          /\ d.status = "PAID" => d.paid_date # None
          /\ ~Has(dists, d.id)
               => d.status = "PENDING" /\ d.paid_date = None
     /\ \A d \in dists :
          (Has(dists', d.id) /\ d.paid_date # None)
          => Row(dists', d.id).paid_date # None]_vars

\* a distribution paid at time 1 without a payment reference, next to one
\* that was paid at time 0 and has been cancelled since
C30_Witness ==
  \E d \in dists, e \in dists :
    /\ d.status = "PAID" /\ d.paid_date = Some(1)
    /\ d.payment_reference = None
    /\ e.status = "CANCELLED" /\ e.paid_date = Some(0)

====
